---- MODULE Spec2Model ----
(***************************************************************************)
(* Verification model of the 4-year-window BTC analysis scripts:           *)
(*   src/4-year-return-analysis.py  (window return scan)                   *)
(*   src/btc_loan_analysis.py       (loan + monthly purchase, rates)       *)
(*   src/auto_loan_analysis.py      (auto loan + purchase on payment day)  *)
(*                                                                         *)
(* Numbers are exact fractions <<n, d>> with the IEEE special values that  *)
(* numpy's float64 division produces: <<0,0>> is NaN, <<1,0>> is +inf and  *)
(* <<-1,0>> is -inf.  Timestamps are <<year, month, day, hour>>.           *)
(***************************************************************************)
EXTENDS Integers, Sequences, FiniteSets, TLC

(***************************************************************************)
(* Exact arithmetic                                                        *)
(***************************************************************************)
Abs(x) == IF x < 0 THEN -x ELSE x

Sign(x) == IF x < 0 THEN -1 ELSE IF x > 0 THEN 1 ELSE 0

RECURSIVE Gcd(_, _)
Gcd(a, b) == IF b = 0 THEN a ELSE Gcd(b, a % b)

NaN == <<0, 0>>

IsNaN(x) == x[2] = 0 /\ x[1] = 0

IsFinite(x) == x[2] # 0

\* the fraction n/d in lowest terms with a positive denominator
Norm(n, d) ==
    IF d = 0 THEN <<Sign(n), 0>>
    ELSE LET g == Gcd(Abs(n), Abs(d))
         IN  IF d < 0 THEN <<(-n) \div g, (-d) \div g>> ELSE <<n \div g, d \div g>>

R(n) == <<n, 1>>

RNeg(x) == <<-x[1], x[2]>>

RAdd(x, y) ==
    IF IsNaN(x) \/ IsNaN(y) THEN NaN
    ELSE IF ~IsFinite(x) THEN (IF ~IsFinite(y) /\ y[1] # x[1] THEN NaN ELSE x)
    ELSE IF ~IsFinite(y) THEN y
    ELSE LET g == Gcd(x[2], y[2])
         IN  Norm(x[1] * (y[2] \div g) + y[1] * (x[2] \div g), (x[2] \div g) * y[2])

RSub(x, y) == RAdd(x, RNeg(y))

RMul(x, y) ==
    IF IsNaN(x) \/ IsNaN(y) THEN NaN
    ELSE IF ~IsFinite(x) \/ ~IsFinite(y)
         THEN <<Sign(x[1]) * Sign(y[1]), 0>>
    ELSE IF x[1] = 0 \/ y[1] = 0 THEN <<0, 1>>
    ELSE LET g1 == Gcd(Abs(x[1]), y[2])
             g2 == Gcd(Abs(y[1]), x[2])
         IN  Norm((x[1] \div g1) * (y[1] \div g2), (x[2] \div g2) * (y[2] \div g1))

\* float64 division as numpy performs it: x/0 is +-inf, 0/0 is NaN, no exception
NpDiv(x, y) ==
    IF IsNaN(x) \/ IsNaN(y) THEN NaN
    ELSE IF ~IsFinite(y) THEN (IF IsFinite(x) THEN <<0, 1>> ELSE NaN)
    ELSE IF y[1] = 0 THEN <<Sign(x[1]), 0>>
    ELSE IF ~IsFinite(x) THEN <<x[1] * Sign(y[1]), 0>>
    ELSE RMul(x, Norm(y[2], y[1]))

\* comparisons; every comparison with NaN is false
RLt(x, y) ==
    /\ ~IsNaN(x) /\ ~IsNaN(y)
    /\ IF IsFinite(x) /\ IsFinite(y) THEN x[1] * y[2] < y[1] * x[2]
       ELSE IF ~IsFinite(x) /\ ~IsFinite(y) THEN x[1] < y[1]
       ELSE IF ~IsFinite(x) THEN x[1] < 0
       ELSE y[1] > 0

RGt(x, y) == RLt(y, x)

RLe(x, y) == ~IsNaN(x) /\ ~IsNaN(y) /\ ~RLt(y, x)

RGe(x, y) == RLe(y, x)

RECURSIVE RPow(_, _)
RPow(x, n) ==
    IF n = 0 THEN R(1)
    ELSE IF n < 0 THEN NpDiv(R(1), RPow(x, -n))
    ELSE RMul(x, RPow(x, n - 1))

(***************************************************************************)
(* Calendar                                                                *)
(***************************************************************************)
IsLeap(y) == (y % 4 = 0 /\ y % 100 # 0) \/ y % 400 = 0

DaysInMonth(y, m) ==
    IF m = 2 THEN (IF IsLeap(y) THEN 29 ELSE 28)
    ELSE IF m \in {4, 6, 9, 11} THEN 30 ELSE 31

RECURSIVE DaysBeforeMonth(_, _)
DaysBeforeMonth(y, m) ==
    IF m = 1 THEN 0 ELSE DaysBeforeMonth(y, m - 1) + DaysInMonth(y, m - 1)

DaysBeforeYear(y) ==
    365 * (y - 1) + ((y - 1) \div 4) - ((y - 1) \div 100) + ((y - 1) \div 400)

\* hours on the proleptic calendar: the order and the distance of timestamps
Ord(t) == (DaysBeforeYear(t[1]) + DaysBeforeMonth(t[1], t[2]) + t[3]) * 24 + t[4]

MinOf(a, b) == IF a < b THEN a ELSE b

\* t + pd.DateOffset(years = n): same month, day and hour; the day is clamped
\* to the last day of the target month (Feb 29 -> Feb 28)
AddYears(t, n) ==
    <<t[1] + n, t[2], MinOf(t[3], DaysInMonth(t[1] + n, t[2])), t[4]>>

\* t - pd.DateOffset(months = n): the day is clamped likewise
SubMonths(t, n) ==
    LET k == (t[1] * 12 + (t[2] - 1)) - n
        y == k \div 12
        m == (k % 12) + 1
    IN  <<y, m, MinOf(t[3], DaysInMonth(y, m)), t[4]>>

\* the month end k months after the month of t, at t's hour
MonthEnd(t, k) ==
    LET j == (t[1] * 12 + (t[2] - 1)) + k
        y == j \div 12
        m == (j % 12) + 1
    IN  <<y, m, DaysInMonth(y, m), t[4]>>

(***************************************************************************)
(* State                                                                   *)
(***************************************************************************)
VARIABLES
    prog,                 \* the code that runs: "scan", "btc", "auto", "rates",
                          \* "payment", "btc_main", "auto_main"
    pc,                   \* its position
    err,                  \* the exception that ended it, "" if none
    raw,                  \* the rows of the price CSV: [date, high, low]
    df,                   \* the loaded frame: [date, high, low, avg_price]
    i,                    \* analyze_btc_returns: loop index (1-based)
    all_returns,          \* analyze_btc_returns: return_pct per recorded interval
    all_start_dates,      \* analyze_btc_returns
    all_end_dates,        \* analyze_btc_returns
    end_idxs,             \* the end_idx used by each recorded interval
    results,              \* analyze_btc_returns: the returned dict, <<>> if none
    loan,                 \* loan_scenario / loan_params
    monthly_payment,      \* calculate_loan_metrics / analyze_auto_loan
    btc_monthly_amount,
    start_date,           \* analyze_*_loan: the start of the loan window
    payment_dates,        \* the dates the purchase loop runs over
    purchases,            \* the purchases made: [date, row, price]
    btc_accumulated,
    total_btc_investment,
    result,               \* analyze_*_loan: the returned dict, <<>> if none
    rate_args,            \* calculate_effective_rates: the arguments of the call
    rates,                \* calculate_effective_rates: the returned values
    scenarios,            \* main: the scenario rows the loop runs over
    scenario_no,          \* main: the number of the scenario at hand, 0 before
    all_results,          \* main: the results appended so far
    saved                 \* main: <<>> until the results CSV is written, then
                          \* <<rows>>

scanVars == <<i, all_returns, all_start_dates, all_end_dates, end_idxs, results>>

simVars == <<loan, monthly_payment, btc_monthly_amount, start_date, payment_dates,
             purchases, btc_accumulated, total_btc_investment, result>>

rateVars == <<rate_args, rates>>

gridVars == <<scenarios, scenario_no, all_results, saved>>

vars == <<prog, pc, err, raw, df, scanVars, simVars, rateVars, gridVars>>

(***************************************************************************)
(* Price data                                                              *)
(***************************************************************************)
MaxScanLen == 4

\* the year range of pd.to_datetime(format = '%m/%d/%y %H:%M'): a two-digit
\* year is read as 1969..2068
MinYear == 1969

MaxYear == 2068

\* candidate timestamps of the scanned series, around two leap days 4 years apart
ScanInstants ==
    { <<2016, 2, 28, 12>>, <<2016, 2, 29, 0>>, <<2016, 2, 29, 12>>, <<2016, 3, 1, 0>>,
      <<2020, 2, 28, 12>>, <<2020, 2, 29, 0>>, <<2020, 2, 29, 12>>, <<2020, 3, 1, 0>> }

\* (high, low) of a row; a NaN high is a cell pd.to_numeric could not read
Quotes == { <<R(1), R(1)>>, <<R(3), R(1)>>, <<NaN, R(1)>> }

Latest(S) == CHOOSE t \in S : \A u \in S : Ord(u) <= Ord(t)

\* the rows of a CSV file, newest first
RECURSIVE RowsOf(_, _)
RowsOf(S, q) ==
    IF S = {} THEN <<>>
    ELSE LET t == Latest(S)
         IN  <<[date |-> t, high |-> q[t][1], low |-> q[t][2]]>> \o RowsOf(S \ {t}, q)

Readable(instants) == { t \in instants : MinYear <= t[1] /\ t[1] <= MaxYear }

RawFiles(instants, maxLen, quotes) ==
    UNION { { RowsOf(S, q) : q \in [S -> quotes] } :
            S \in { T \in SUBSET Readable(instants) : Cardinality(T) <= maxLen } }

\* df.sort_values('date'): insertion of each row into the sorted prefix
RECURSIVE InsertByDate(_, _)
InsertByDate(row, s) ==
    IF s = <<>> THEN <<row>>
    ELSE IF Ord(row.date) < Ord(Head(s).date) THEN <<row>> \o s
    ELSE <<Head(s)>> \o InsertByDate(row, Tail(s))

RECURSIVE SortByDate(_)
SortByDate(s) == IF s = <<>> THEN <<>> ELSE InsertByDate(Head(s), SortByDate(Tail(s)))

\* df.dropna(subset = ['avg_price'])
DropNaN(s) == SelectSeq(s, LAMBDA row : ~IsNaN(row.avg_price))

\* (high + low) / 2
MidPrice(high, low) == NpDiv(RAdd(high, low), R(2))

\* df['avg_price'] = (df['high'] + df['low']) / 2
WithAvg(s) ==
    [n \in 1..Len(s) |->
        [date |-> s[n].date, high |-> s[n].high, low |-> s[n].low,
         avg_price |-> MidPrice(s[n].high, s[n].low)]]

\* 4-year-return-analysis.py lines 22-34
LoadScanFrame(rows) == DropNaN(WithAvg(SortByDate(rows)))

(***************************************************************************)
(* analyze_btc_returns                                                     *)
(***************************************************************************)
HorizonYears == 4

\* the day 4 years later, the time of day dropped
get_4_year_later_day(date) ==
    LET later == AddYears(date, HorizonYears)
    IN  <<later[1], later[2], later[3], 0>>

\* start_date + pd.DateOffset(years = 4)
get_exact_4_year_later_date(date) == AddYears(date, HorizonYears)

\* the position of the date nearest to target, whichever side it lies on
SearchNearest(s, target) ==
    IF s = <<>> THEN 1
    ELSE CHOOSE n \in 1..Len(s) :
            \A m \in 1..Len(s) :
                Abs(Ord(s[n].date) - Ord(target)) <= Abs(Ord(s[m].date) - Ord(target))

\* searchsorted(target, side = 'right'): the first position whose date is > target
SearchSortedRight(s, target) ==
    LET hits == { n \in 1..Len(s) : Ord(s[n].date) > Ord(target) }
    IN  IF hits = {} THEN Len(s) + 1 ELSE CHOOSE n \in hits : \A m \in hits : n <= m

\* df['date'].searchsorted(target): the first position whose date is >= target,
\* Len(s) + 1 when there is none
SearchSorted(s, target) ==
    LET hits == { n \in 1..Len(s) : Ord(s[n].date) >= Ord(target) }
    IN  IF hits = {} THEN Len(s) + 1 ELSE CHOOSE n \in hits : \A m \in hits : n <= m

\* a break that already fires when end_idx is the last position
EarlyBreak(end_idx, n) == end_idx >= n

\* "if end_idx >= len(df): break"
NotEnoughData(end_idx, n) == end_idx > n

ReturnPct(start_price, end_price) ==
    RMul(NpDiv(RSub(end_price, start_price), start_price), R(100))

\* np.argmax / np.argmin: the first position of the extreme value
\* the position of the last return
LastInterval(s) == Len(s)

\* np.argmax: the first position of the greatest return
ArgMax(s) ==
    CHOOSE n \in 1..Len(s) :
        /\ \A m \in 1..Len(s) : RLe(s[m], s[n])
        /\ \A m \in 1..(n - 1) : RLt(s[m], s[n])

\* np.argmin: the first position of the least return
ArgMin(s) ==
    CHOOSE n \in 1..Len(s) :
        /\ \A m \in 1..Len(s) : RGe(s[m], s[n])
        /\ \A m \in 1..(n - 1) : RGt(s[m], s[n])

\* the end price read at the latest sample of the series
ExtremeAtLatest(idx) ==
    [return_pct  |-> all_returns[idx],
     start_date  |-> all_start_dates[idx],
     end_date    |-> all_end_dates[idx],
     start_price |-> df[idx].avg_price,
     end_price   |-> df[Len(df)].avg_price]

\* the entry of results for the interval at position idx of the lists: the
\* start price at that position of the frame, the end price at the position
\* searchsorted finds for the end date
Extreme(idx) ==
    LET end_date == all_end_dates[idx]
        e_idx    == SearchSorted(df, end_date)
    IN  [return_pct  |-> all_returns[idx],
         start_date  |-> all_start_dates[idx],
         end_date    |-> end_date,
         start_price |-> df[idx].avg_price,
         end_price   |-> df[e_idx].avg_price]

InitScan ==
    /\ prog = "scan"
    /\ pc = "raw"
    /\ err = ""
    /\ raw \in RawFiles(ScanInstants, MaxScanLen, Quotes)
    /\ df = <<>>
    /\ i = 1
    /\ all_returns = <<>>
    /\ all_start_dates = <<>>
    /\ all_end_dates = <<>>
    /\ end_idxs = <<>>
    /\ results = <<>>
    /\ loan = <<>>
    /\ monthly_payment = NaN
    /\ btc_monthly_amount = NaN
    /\ start_date = <<>>
    /\ payment_dates = <<>>
    /\ purchases = <<>>
    /\ btc_accumulated = R(0)
    /\ total_btc_investment = R(0)
    /\ result = <<>>
    /\ rate_args = <<>>
    /\ rates = <<>>
    /\ scenarios = <<>>
    /\ scenario_no = 0
    /\ all_results = <<>>
    /\ saved = <<>>

LoadScan ==
    /\ prog = "scan" /\ pc = "raw"
    /\ df' = LoadScanFrame(raw)
    /\ pc' = "scan"
    /\ UNCHANGED <<prog, err, raw, scanVars, simVars, rateVars, gridVars>>

\* one iteration of the loop that records an interval
ScanRecord ==
    /\ prog = "scan" /\ pc = "scan" /\ i <= Len(df)
    /\ LET first_date == df[i].date
           end_idx    == SearchSorted(df, get_exact_4_year_later_date(first_date))
       IN  /\ ~NotEnoughData(end_idx, Len(df))
           /\ all_returns' = Append(all_returns,
                                    ReturnPct(df[i].avg_price, df[end_idx].avg_price))
           /\ all_start_dates' = Append(all_start_dates, first_date)
           /\ all_end_dates' = Append(all_end_dates, df[end_idx].date)
           /\ end_idxs' = Append(end_idxs, end_idx)
    /\ i' = i + 1
    /\ UNCHANGED <<prog, pc, err, raw, df, results, simVars, rateVars, gridVars>>

\* the iteration that leaves the loop
ScanBreak ==
    /\ prog = "scan" /\ pc = "scan" /\ i <= Len(df)
    /\ NotEnoughData(SearchSorted(df, get_exact_4_year_later_date(df[i].date)), Len(df))
    /\ pc' = "aggregate"
    /\ UNCHANGED <<prog, err, raw, df, scanVars, simVars, rateVars, gridVars>>

\* range(len(df)) is exhausted
ScanExhausted ==
    /\ prog = "scan" /\ pc = "scan" /\ i > Len(df)
    /\ pc' = "aggregate"
    /\ UNCHANGED <<prog, err, raw, df, scanVars, simVars, rateVars, gridVars>>

Aggregate ==
    /\ prog = "scan" /\ pc = "aggregate" /\ all_returns # <<>>
    /\ results' = [highest_return |-> Extreme(ArgMax(all_returns)),
                   lowest_return  |-> Extreme(ArgMin(all_returns)),
                   total_intervals_analyzed |-> Len(all_returns)]
    /\ pc' = "done"
    /\ UNCHANGED <<prog, err, raw, df, i, all_returns, all_start_dates,
                   all_end_dates, end_idxs, simVars, rateVars, gridVars>>

\* np.argmax of an empty list raises ValueError
AggregateEmpty ==
    /\ prog = "scan" /\ pc = "aggregate" /\ all_returns = <<>>
    /\ pc' = "failed"
    /\ err' = "ValueError"
    /\ UNCHANGED <<prog, raw, df, scanVars, simVars, rateVars, gridVars>>

NextScan ==
    \/ LoadScan
    \/ ScanRecord
    \/ ScanBreak
    \/ ScanExhausted
    \/ Aggregate
    \/ AggregateEmpty

SpecScan == InitScan /\ [][NextScan]_vars

(***************************************************************************)
(* Loan arithmetic                                                         *)
(***************************************************************************)
\* monthly_rate = apr / 12 / 100
MonthlyRate(apr) == NpDiv(NpDiv(apr, R(12)), R(100))

\* (1 + monthly_rate) ** term_months - 1, the divisor of the payment formula
PaymentDivisor(apr, term_months) ==
    RSub(RPow(RAdd(R(1), MonthlyRate(apr)), term_months), R(1))

\* the division of Python floats raises ZeroDivisionError on a zero divisor
PaymentRaises(apr, term_months) == PaymentDivisor(apr, term_months) = R(0)

\* principal * (r * (1 + r) ** n) / ((1 + r) ** n - 1)
MonthlyPayment(principal, apr, term_months) ==
    LET r == MonthlyRate(apr)
    IN  NpDiv(RMul(principal, RMul(r, RPow(RAdd(R(1), r), term_months))),
              PaymentDivisor(apr, term_months))

\* monthly_payment * (btc_percentage / 100)
BtcMonthlyAmount(payment, btc_percentage) ==
    RMul(payment, NpDiv(btc_percentage, R(100)))

\* total_interest = monthly_payment * term_months - principal
TotalInterest(payment, term_months, principal) ==
    RSub(RMul(payment, R(term_months)), principal)

(***************************************************************************)
(* calculate_effective_rates                                               *)
(***************************************************************************)
\* the difference taken the other way round
NetInterestReversed(total_interest, net_bitcoin_position) ==
    RSub(net_bitcoin_position, total_interest)

\* net_interest = total_interest - net_bitcoin_position
NetInterest(total_interest, net_bitcoin_position) ==
    RSub(total_interest, net_bitcoin_position)

\* "if net_interest >= 0"
RegimeIsCostOrZero(net_interest) == RGe(net_interest, R(0))

\* "if net_interest > 0"
RegimeIsCost(net_interest) == RGt(net_interest, R(0))

RAbs(x) == <<Abs(x[1]), x[2]>>

\* the exponent 12 / term_months divides Python numbers
RatesRaises(term_months) == term_months = 0

\* total_interest + net_bitcoin_position
CapitalWithoutPrincipal(principal, total_interest, net_bitcoin_position) ==
    RAdd(total_interest, net_bitcoin_position)

\* total_capital_deployed = principal + total_interest + net_bitcoin_position
CapitalDeployed(principal, total_interest, net_bitcoin_position) ==
    RAdd(RAdd(principal, total_interest), net_bitcoin_position)

\* (net_interest + principal) / principal, the base of the cost branch
CostGrowth(net_interest, principal) ==
    NpDiv(RAdd(net_interest, principal), principal)

\* 1 + total_gain / total_capital_deployed, the base of the return branch
ReturnGrowth(total_gain, total_capital_deployed) ==
    RAdd(R(1), NpDiv(total_gain, total_capital_deployed))

\* the rates are growth ** (12 / term_months) - 1, with growth the base of the
\* power: the returned record carries the base and the exponent 12 / term_months
calculate_effective_rates(total_interest, net_bitcoin_position, principal, term_months) ==
    LET net_interest == NetInterest(total_interest, net_bitcoin_position)
    IN  IF RegimeIsCost(net_interest)
        THEN [rate_type |-> "cost",
              net_interest |-> net_interest,
              total_gain |-> NaN,
              total_capital_deployed |-> NaN,
              growth |-> CostGrowth(net_interest, principal),
              per_year |-> <<12, term_months>>,
              total_return |-> NaN]
        ELSE LET total_gain == RAbs(net_interest)
                 total_capital_deployed ==
                     CapitalDeployed(principal, total_interest,
                                     net_bitcoin_position)
             IN  [rate_type |-> "return",
                  net_interest |-> net_interest,
                  total_gain |-> total_gain,
                  total_capital_deployed |-> total_capital_deployed,
                  growth |-> ReturnGrowth(total_gain, total_capital_deployed),
                  per_year |-> <<12, term_months>>,
                  total_return |->
                      RMul(NpDiv(total_gain, total_capital_deployed), R(100))]

(***************************************************************************)
(* analyze_btc_enhanced_loan and analyze_auto_loan                         *)
(***************************************************************************)
MaxSimLen == 3

MaxTerm == 2

\* candidate timestamps of the price series the loans are simulated on
SimInstants ==
    { <<2019, 12, 31, 0>>, <<2020, 1, 1, 0>>, <<2020, 1, 30, 0>>, <<2020, 1, 31, 12>>,
      <<2020, 2, 28, 0>>, <<2020, 3, 1, 0>>, <<2020, 3, 15, 12>>, <<2020, 3, 31, 0>> }

SimQuotes == { <<R(1), R(1)>>, <<R(3), R(1)>> }

Loans ==
    [principal_amount : {R(1000)},
     traditional_apr : {R(0), R(12)},
     loan_term_months : 1..MaxTerm,
     btc_purchase_percentage : {R(0), R(50)},
     payment_day : {1, 28}]

\* high + low / 2
AutoAvgPrice(high, low) == RAdd(high, NpDiv(low, R(2)))

\* btc_loan_analysis.main lines 128-137
LoadBtcFrame(rows) == SortByDate(DropNaN(WithAvg(rows)))

\* btc_data['avg_price'] = high + low / 2
WithAutoAvg(s) ==
    [n \in 1..Len(s) |->
        [date |-> s[n].date, high |-> s[n].high, low |-> s[n].low,
         avg_price |-> AutoAvgPrice(s[n].high, s[n].low)]]

\* auto_loan_analysis.main lines 188-190
LoadAutoFrame(rows) == SortByDate(DropNaN(WithAutoAvg(rows)))

\* btc_data['date'].max()
EndDate(frame) == frame[Len(frame)].date

\* a range that leaves out the month end of the month of start
PurchaseDatesFromNextMonth(start, periods) ==
    [j \in 1..(periods - 1) |-> MonthEnd(start, j)]

\* pd.date_range(start, periods, freq = 'ME'): the month ends from start on
PurchaseDates(start, periods) == [j \in 1..periods |-> MonthEnd(start, j - 1)]

\* the month end itself, not moved to the payment day
PaymentDateKeepingDay(date, payment_day) == date

\* date.replace(day = min(payment_day, calendar.monthrange(year, month)[1]))
PaymentDate(date, payment_day) ==
    <<date[1], date[2], MinOf(payment_day, DaysInMonth(date[1], date[2])), date[4]>>

\* the rows of btc_data[btc_data['date'] >= start_date]
PeriodRows(frame, start) == { n \in 1..Len(frame) : Ord(frame[n].date) >= Ord(start) }

Distance(frame, n, date) == Abs(Ord(frame[n].date) - Ord(date))

\* (period_data['date'] - purchase_date).abs().idxmin(): the first row of the
\* period at the least distance
NearestRow(frame, rows, date) ==
    CHOOSE n \in rows :
        /\ \A m \in rows : Distance(frame, n, date) <= Distance(frame, m, date)
        /\ \A m \in rows : Distance(frame, m, date) = Distance(frame, n, date) => n <= m

\* numpy warns, and does not raise, when a float64 is divided by zero
DivWarning(divisor) == IF divisor = R(0) THEN "RuntimeWarning" ELSE ""

\* btc_loan_analysis.py line 63
RoiBtc(final_btc_value, invested) ==
    IF RGt(invested, R(0))
    THEN RMul(NpDiv(RSub(final_btc_value, invested), invested), R(100))
    ELSE R(0)

\* auto_loan_analysis.py line 179
RoiAuto(final_btc_value, invested) ==
    RMul(NpDiv(RSub(final_btc_value, invested), invested), R(100))

\* a run over a price file whose rows carry the given quotes
InitSimOver(quotes) ==
    /\ prog \in {"btc", "auto"}
    /\ pc = "raw"
    /\ err = ""
    /\ raw \in RawFiles(SimInstants, MaxSimLen, quotes)
    /\ df = <<>>
    /\ i = 1
    /\ all_returns = <<>>
    /\ all_start_dates = <<>>
    /\ all_end_dates = <<>>
    /\ end_idxs = <<>>
    /\ results = <<>>
    /\ loan \in Loans
    /\ monthly_payment = NaN
    /\ btc_monthly_amount = NaN
    /\ start_date = <<>>
    /\ payment_dates = <<>>
    /\ purchases = <<>>
    /\ btc_accumulated = R(0)
    /\ total_btc_investment = R(0)
    /\ result = <<>>
    /\ rate_args = <<>>
    /\ rates = <<>>
    /\ scenarios = <<>>
    /\ scenario_no = 0
    /\ all_results = <<>>
    /\ saved = <<>>

InitSim == InitSimOver(SimQuotes)

\* the two simulators, called once or from the scenario loop of their main
BtcPath == prog \in {"btc", "btc_main"}

AutoPath == prog \in {"auto", "auto_main"}

InMain == prog \in {"btc_main", "auto_main"}

LoadBtc ==
    /\ BtcPath /\ pc = "raw"
    /\ df' = LoadBtcFrame(raw)
    /\ pc' = IF InMain THEN "loop" ELSE "loaded"
    /\ UNCHANGED <<prog, err, raw, scanVars, simVars, rateVars, gridVars>>

LoadAuto ==
    /\ AutoPath /\ pc = "raw"
    /\ df' = LoadAutoFrame(raw)
    /\ pc' = IF InMain THEN "loop" ELSE "loaded"
    /\ UNCHANGED <<prog, err, raw, scanVars, simVars, rateVars, gridVars>>

\* an accumulator that keeps the value the previous call left
CarriedAccumulator(previous) == previous

\* btc_accumulated = 0, total_btc_investment = 0: locals of each call
FreshAccumulator(previous) == R(0)

\* the payment formula, evaluated on Python floats, and the two accumulators
Amortize ==
    /\ (BtcPath \/ AutoPath) /\ pc = "loaded"
    /\ ~PaymentRaises(loan.traditional_apr, loan.loan_term_months)
    /\ monthly_payment' = MonthlyPayment(loan.principal_amount, loan.traditional_apr,
                                         loan.loan_term_months)
    /\ btc_monthly_amount' = BtcMonthlyAmount(monthly_payment',
                                              loan.btc_purchase_percentage)
    /\ btc_accumulated' = FreshAccumulator(btc_accumulated)
    /\ total_btc_investment' = FreshAccumulator(total_btc_investment)
    /\ pc' = "metrics"
    /\ UNCHANGED <<prog, err, raw, df, scanVars, loan, start_date, payment_dates,
                   purchases, result, rateVars, gridVars>>

AmortizeRaises ==
    /\ (BtcPath \/ AutoPath) /\ pc = "loaded"
    /\ PaymentRaises(loan.traditional_apr, loan.loan_term_months)
    /\ pc' = "failed"
    /\ err' = "ZeroDivisionError"
    /\ UNCHANGED <<prog, raw, df, scanVars, simVars, rateVars, gridVars>>

\* the purchase dates; analyze_auto_loan moves each date to the payment day of
\* its month
ScheduleDates(auto, start, l) ==
    LET purchase_dates == PurchaseDates(start, l.loan_term_months)
    IN  IF auto
        THEN [j \in 1..Len(purchase_dates) |->
                 PaymentDate(purchase_dates[j], l.payment_day)]
        ELSE purchase_dates

\* start_date and the dates of the purchase loop
Schedule ==
    /\ (BtcPath \/ AutoPath) /\ pc = "metrics" /\ df # <<>>
    /\ start_date' = SubMonths(EndDate(df), loan.loan_term_months)
    /\ payment_dates' = ScheduleDates(AutoPath, start_date', loan)
    /\ purchases' = <<>>
    /\ pc' = "buying"
    /\ UNCHANGED <<prog, err, raw, df, scanVars, loan, monthly_payment,
                   btc_monthly_amount, btc_accumulated, total_btc_investment,
                   result, rateVars, gridVars>>

\* the maximum of an empty date column is NaT, which pd.date_range rejects
ScheduleEmpty ==
    /\ (BtcPath \/ AutoPath) /\ pc = "metrics" /\ df = <<>>
    /\ pc' = "failed"
    /\ err' = "ValueError"
    /\ UNCHANGED <<prog, raw, df, scanVars, simVars, rateVars, gridVars>>

\* the price of the row the purchase date resolves to
DayPrice(frame, start, purchase_date) ==
    frame[NearestRow(frame, PeriodRows(frame, start), purchase_date)].avg_price

\* one iteration of the purchase loop
Purchase ==
    /\ (BtcPath \/ AutoPath) /\ pc = "buying"
    /\ Len(purchases) < Len(payment_dates)
    /\ LET purchase_date == payment_dates[Len(purchases) + 1]
           row           == NearestRow(df, PeriodRows(df, start_date), purchase_date)
           day_price     == DayPrice(df, start_date, purchase_date)
           btc_purchased == NpDiv(btc_monthly_amount, day_price)
       IN  /\ purchases' = Append(purchases, [date |-> purchase_date, row |-> row,
                                              price |-> day_price])
           /\ btc_accumulated' = RAdd(btc_accumulated, btc_purchased)
           /\ total_btc_investment' = RAdd(total_btc_investment, btc_monthly_amount)
    /\ UNCHANGED <<prog, pc, err, raw, df, scanVars, loan, monthly_payment,
                   btc_monthly_amount, start_date, payment_dates, result, rateVars,
                   gridVars>>

\* final_btc_value - total_btc_investment, the operands exchanged
NetPositionReversed(final_btc_value, invested) == RSub(invested, final_btc_value)

\* final_btc_value - total_btc_investment
NetPosition(final_btc_value, invested) == RSub(final_btc_value, invested)

\* the statements after the loop and the returned dict
ResultRecord(auto, frame, l, payment, start, quantity, invested) ==
    LET final_btc_price == frame[Len(frame)].avg_price
        final_btc_value == RMul(quantity, final_btc_price)
        total_interest  == TotalInterest(payment, l.loan_term_months,
                                         l.principal_amount)
        net_position    == NetPosition(final_btc_value, invested)
    IN  [total_btc_investment |-> invested,
         btc_accumulated |-> quantity,
         final_btc_price |-> final_btc_price,
         final_btc_value |-> final_btc_value,
         net_position |-> net_position,
         total_interest |-> total_interest,
         roi_percentage |->
             IF auto THEN RoiAuto(final_btc_value, invested)
             ELSE RoiBtc(final_btc_value, invested),
         roi_warning |->
             IF ~auto /\ ~RGt(invested, R(0)) THEN ""
             ELSE DivWarning(invested),
         rates |->
             IF auto THEN <<>>
             ELSE calculate_effective_rates(total_interest, net_position,
                      l.principal_amount, l.loan_term_months),
         start_date |-> start,
         end_date |-> EndDate(frame)]

\* the quantity and the amount after the first n dates of the purchase loop
RECURSIVE Bought(_, _, _, _, _)
Bought(frame, start, dates, amount, n) ==
    IF n = 0 THEN R(0)
    ELSE RAdd(Bought(frame, start, dates, amount, n - 1),
              NpDiv(amount, DayPrice(frame, start, dates[n])))

RECURSIVE Invested(_, _)
Invested(amount, n) ==
    IF n = 0 THEN R(0) ELSE RAdd(Invested(amount, n - 1), amount)

\* the simulator as a function of its two arguments: what one call on the
\* frame and the scenario returns or raises
RunAlone(auto, frame, l) ==
    IF PaymentRaises(l.traditional_apr, l.loan_term_months)
    THEN [error |-> "ZeroDivisionError"]
    ELSE IF frame = <<>>
    THEN [error |-> "ValueError"]
    ELSE LET payment == MonthlyPayment(l.principal_amount, l.traditional_apr,
                                       l.loan_term_months)
             amount  == BtcMonthlyAmount(payment, l.btc_purchase_percentage)
             start   == SubMonths(EndDate(frame), l.loan_term_months)
             dates   == ScheduleDates(auto, start, l)
         IN  ResultRecord(auto, frame, l, payment, start,
                          Bought(frame, start, dates, amount, Len(dates)),
                          Invested(amount, Len(dates)))

\* the return of the simulator; in main the result is appended to the list
Finish ==
    /\ (BtcPath \/ AutoPath) /\ pc = "buying"
    /\ Len(purchases) = Len(payment_dates)
    /\ result' = ResultRecord(AutoPath, df, loan, monthly_payment, start_date,
                              btc_accumulated, total_btc_investment)
    /\ all_results' = IF InMain THEN Append(all_results, result') ELSE all_results
    /\ pc' = IF InMain THEN "loop" ELSE "done"
    /\ UNCHANGED <<prog, err, raw, df, scanVars, loan, monthly_payment,
                   btc_monthly_amount, start_date, payment_dates, purchases,
                   btc_accumulated, total_btc_investment, rateVars, scenarios,
                   scenario_no, saved>>

NextSim ==
    \/ LoadBtc
    \/ LoadAuto
    \/ Amortize
    \/ AmortizeRaises
    \/ Schedule
    \/ ScheduleEmpty
    \/ Purchase
    \/ Finish

SpecSim == InitSim /\ [][NextSim]_vars

\* the same simulation over price files that also hold rows quoted at 0
ZeroQuotes == {<<R(1), R(1)>>, <<R(0), R(0)>>}

InitSimZero == InitSimOver(ZeroQuotes)

SpecSimZero == InitSimZero /\ [][NextSim]_vars

(***************************************************************************)
(* The scenario loops of btc_loan_analysis.main and auto_loan_analysis.main *)
(***************************************************************************)
MaxGrid == 2

GridInstants == { <<2020, 1, 31, 12>>, <<2020, 2, 28, 0>>, <<2020, 3, 31, 0>> }

\* btc_loan_analysis.main reads its scenarios from loan_scenarios.csv;
\* auto_loan_analysis.main generates them, all with a positive apr, and gives
\* every scenario the payment day of the user
GridLoans(main, day) ==
    [principal_amount : {R(1000)},
     traditional_apr : IF main = "btc_main" THEN {R(0), R(12)} ELSE {R(12)},
     loan_term_months : 1..MaxTerm,
     btc_purchase_percentage : {R(50)},
     payment_day : {day}]

Grids(main, day) ==
    UNION { [1..n -> GridLoans(main, day)] : n \in 1..MaxGrid }

InitGrid ==
    /\ prog \in {"btc_main", "auto_main"}
    /\ pc = "raw"
    /\ err = ""
    /\ raw \in RawFiles(GridInstants, Cardinality(GridInstants), SimQuotes)
    /\ df = <<>>
    /\ i = 1
    /\ all_returns = <<>>
    /\ all_start_dates = <<>>
    /\ all_end_dates = <<>>
    /\ end_idxs = <<>>
    /\ results = <<>>
    /\ loan = <<>>
    /\ monthly_payment = NaN
    /\ btc_monthly_amount = NaN
    /\ start_date = <<>>
    /\ payment_dates = <<>>
    /\ purchases = <<>>
    /\ btc_accumulated = R(0)
    /\ total_btc_investment = R(0)
    /\ result = <<>>
    /\ rate_args = <<>>
    /\ rates = <<>>
    /\ \E day \in {1, 28} : scenarios \in Grids(prog, day)
    /\ scenario_no = 0
    /\ all_results = <<>>
    /\ saved = <<>>

\* "for _, scenario in ....iterrows()": the next scenario becomes the argument
\* of the simulator
NextScenario ==
    /\ InMain /\ pc = "loop"
    /\ scenario_no < Len(scenarios)
    /\ scenario_no' = scenario_no + 1
    /\ loan' = scenarios[scenario_no']
    /\ pc' = "loaded"
    /\ UNCHANGED <<prog, err, raw, df, scanVars, monthly_payment, btc_monthly_amount,
                   start_date, payment_dates, purchases, btc_accumulated,
                   total_btc_investment, result, rateVars, scenarios, all_results,
                   saved>>

\* pd.DataFrame(results).to_csv(...) after the loop
SaveResults ==
    /\ InMain /\ pc = "loop"
    /\ scenario_no = Len(scenarios)
    /\ saved' = <<all_results>>
    /\ pc' = "done"
    /\ UNCHANGED <<prog, err, raw, df, scanVars, simVars, rateVars, scenarios,
                   scenario_no, all_results>>

NextGrid ==
    \/ LoadBtc
    \/ LoadAuto
    \/ NextScenario
    \/ Amortize
    \/ AmortizeRaises
    \/ Schedule
    \/ ScheduleEmpty
    \/ Purchase
    \/ Finish
    \/ SaveResults

SpecGrid == InitGrid /\ [][NextGrid]_vars

(***************************************************************************)
(* calculate_effective_rates on its own                                    *)
(***************************************************************************)
MaxRateTerm == 3

\* the function takes any numbers: the terms include 0 and -1, the interest a
\* negative amount, the positions the neighbours of each interest amount
RateArgs ==
    [total_interest : {R(-100), R(0), R(50), R(100)},
     net_bitcoin_position : {R(-100), R(-50), R(-1), R(0), R(1), R(49), R(50),
                             R(51), R(99), R(100), R(101), R(150)},
     principal : {R(100), R(1000)},
     term_months : (-1)..MaxRateTerm]

InitRates ==
    /\ prog = "rates"
    /\ pc = "call"
    /\ err = ""
    /\ raw = <<>>
    /\ df = <<>>
    /\ i = 1
    /\ all_returns = <<>>
    /\ all_start_dates = <<>>
    /\ all_end_dates = <<>>
    /\ end_idxs = <<>>
    /\ results = <<>>
    /\ loan = <<>>
    /\ monthly_payment = NaN
    /\ btc_monthly_amount = NaN
    /\ start_date = <<>>
    /\ payment_dates = <<>>
    /\ purchases = <<>>
    /\ btc_accumulated = R(0)
    /\ total_btc_investment = R(0)
    /\ result = <<>>
    /\ rate_args \in RateArgs
    /\ rates = <<>>
    /\ scenarios = <<>>
    /\ scenario_no = 0
    /\ all_results = <<>>
    /\ saved = <<>>

Resolve ==
    /\ prog = "rates" /\ pc = "call"
    /\ ~RatesRaises(rate_args.term_months)
    /\ rates' = calculate_effective_rates(rate_args.total_interest,
                    rate_args.net_bitcoin_position, rate_args.principal,
                    rate_args.term_months)
    /\ pc' = "done"
    /\ UNCHANGED <<prog, err, raw, df, scanVars, simVars, rate_args, gridVars>>

ResolveRaises ==
    /\ prog = "rates" /\ pc = "call"
    /\ RatesRaises(rate_args.term_months)
    /\ pc' = "failed"
    /\ err' = "ZeroDivisionError"
    /\ UNCHANGED <<prog, raw, df, scanVars, simVars, rateVars, gridVars>>

NextRates ==
    \/ Resolve
    \/ ResolveRaises

SpecRates == InitRates /\ [][NextRates]_vars

(***************************************************************************)
(* calculate_loan_metrics on its own                                       *)
(***************************************************************************)
MaxPayTerm == 2

\* the function takes any numbers: the principals include 0 and a negative
\* amount, the terms 0 and -1
PayArgs ==
    [principal_amount : {R(-1000), R(0), R(500), R(1000), R(2000)},
     traditional_apr : {R(0), R(12), R(24)},
     loan_term_months : (-1)..MaxPayTerm,
     btc_purchase_percentage : {R(0), R(50)}]

InitPay ==
    /\ prog = "payment"
    /\ pc = "call"
    /\ err = ""
    /\ raw = <<>>
    /\ df = <<>>
    /\ i = 1
    /\ all_returns = <<>>
    /\ all_start_dates = <<>>
    /\ all_end_dates = <<>>
    /\ end_idxs = <<>>
    /\ results = <<>>
    /\ loan \in PayArgs
    /\ monthly_payment = NaN
    /\ btc_monthly_amount = NaN
    /\ start_date = <<>>
    /\ payment_dates = <<>>
    /\ purchases = <<>>
    /\ btc_accumulated = R(0)
    /\ total_btc_investment = R(0)
    /\ result = <<>>
    /\ rate_args = <<>>
    /\ rates = <<>>
    /\ scenarios = <<>>
    /\ scenario_no = 0
    /\ all_results = <<>>
    /\ saved = <<>>

Pay ==
    /\ prog = "payment" /\ pc = "call"
    /\ ~PaymentRaises(loan.traditional_apr, loan.loan_term_months)
    /\ monthly_payment' = MonthlyPayment(loan.principal_amount, loan.traditional_apr,
                                         loan.loan_term_months)
    /\ btc_monthly_amount' = BtcMonthlyAmount(monthly_payment',
                                              loan.btc_purchase_percentage)
    /\ result' = [monthly_payment |-> monthly_payment',
                  btc_monthly_amount |-> btc_monthly_amount',
                  total_payments |-> RMul(monthly_payment', R(loan.loan_term_months))]
    /\ pc' = "done"
    /\ UNCHANGED <<prog, err, raw, df, scanVars, loan, start_date, payment_dates,
                   purchases, btc_accumulated, total_btc_investment, rateVars, gridVars>>

PayRaises ==
    /\ prog = "payment" /\ pc = "call"
    /\ PaymentRaises(loan.traditional_apr, loan.loan_term_months)
    /\ pc' = "failed"
    /\ err' = "ZeroDivisionError"
    /\ UNCHANGED <<prog, raw, df, scanVars, simVars, rateVars, gridVars>>

NextPay ==
    \/ Pay
    \/ PayRaises

SpecPay == InitPay /\ [][NextPay]_vars

(***************************************************************************)
(* Properties of the window return scan                                    *)
(***************************************************************************)
ScanLoopOver == prog = "scan" /\ pc \in {"aggregate", "done", "failed"}

\* the start positions whose 4-years-later date is inside the series
Fitting ==
    { n \in 1..Len(df) :
        Ord(AddYears(df[n].date, HorizonYears)) <= Ord(df[Len(df)].date) }

C2_BreakLosesNoInterval ==
    ScanLoopOver =>
        /\ Fitting = 1..Len(all_start_dates)
        /\ \A n \in 1..Len(all_start_dates) : all_start_dates[n] = df[n].date

\* the loop was left by the break with two intervals recorded and at least
\* two start positions never tried
C2_Witness ==
    /\ ScanLoopOver
    /\ Len(all_start_dates) >= 2
    /\ Len(df) >= Len(all_start_dates) + 2

\* C3: a scan in which no start position fits ends with an exception (numpy's
\* ValueError for the argmax of an empty list) and returns no result
C3_NoIntervalFails ==
    (prog = "scan" /\ pc \in {"done", "failed"} /\ Fitting = {}) =>
        (pc = "failed" /\ err = "ValueError" /\ results = <<>>)

\* a failed scan of a series of at least two samples
C3_Witness ==
    prog = "scan" /\ pc = "failed" /\ Len(df) >= 2 /\ Fitting = {}

(***************************************************************************)
(* Properties of the loan simulations                                      *)
(***************************************************************************)
Simulating == prog \in {"btc", "auto"}

\* C4: with an APR of 0 the monthly payment is principal / term_months
C4_ZeroAprPaysPrincipalOverTerm ==
    (Simulating /\ pc \notin {"raw", "loaded"} /\ loan.traditional_apr = R(0)) =>
        /\ err # "ZeroDivisionError"
        /\ monthly_payment = NpDiv(loan.principal_amount, R(loan.loan_term_months))

\* C5: the price of every loaded sample is the midpoint of its high and low
C5_PriceIsMidpoint ==
    pc # "raw" =>
        \A n \in 1..Len(df) : RMul(df[n].avg_price, R(2)) = RAdd(df[n].high, df[n].low)

\* C6: every purchase uses the sample of the whole series nearest to the
\* purchase date, the earlier one of two equally near samples
C6_NearestSampleOfWholeSeries ==
    Simulating =>
        \A j \in 1..Len(purchases) :
            LET p == purchases[j]
            IN  /\ \A m \in 1..Len(df) :
                       Distance(df, p.row, p.date) <= Distance(df, m, p.date)
                /\ \A m \in 1..Len(df) :
                       Distance(df, m, p.date) = Distance(df, p.row, p.date) => p.row <= m
                /\ p.price = df[p.row].avg_price

\* C7: no result is computed when the window start precedes the first sample
C7_ShortHistoryGivesNoResult ==
    ~(Simulating /\ pc = "done" /\ Ord(start_date) < Ord(df[1].date))

RECURSIVE SumQuantity(_, _)
SumQuantity(amount, log) ==
    IF log = <<>> THEN R(0)
    ELSE RAdd(SumQuantity(amount, SubSeq(log, 1, Len(log) - 1)),
              NpDiv(amount, log[Len(log)].price))

\* C8: after k purchases invested = k * allocation and quantity is the sum of
\* allocation / price; a finished simulation made term_months purchases,
\* invested term_months * allocation and holds a quantity >= 0
C8_PurchaseAccounting ==
    (Simulating /\ pc \in {"buying", "done"}) =>
        /\ total_btc_investment = RMul(R(Len(purchases)), btc_monthly_amount)
        /\ btc_accumulated = SumQuantity(btc_monthly_amount, purchases)
        /\ Len(purchases) <= loan.loan_term_months
        /\ pc = "done" =>
               /\ Len(purchases) = loan.loan_term_months
               /\ result.total_btc_investment
                      = RMul(R(loan.loan_term_months), btc_monthly_amount)
               /\ result.btc_accumulated = btc_accumulated
               /\ RGe(result.btc_accumulated, R(0))

\* a finished simulation of two purchases at different prices
C8_Witness ==
    /\ Simulating /\ pc = "done"
    /\ Len(purchases) = 2
    /\ purchases[1].price # purchases[2].price
    /\ RGt(btc_monthly_amount, R(0))

\* C9: with an allocation of 0 the simulation ends with quantity 0, invested 0
\* and an undefined ROI that no division by zero produced
C9_ZeroAllocationRoiUndefined ==
    (Simulating /\ pc = "done" /\ btc_monthly_amount = R(0)) =>
        /\ result.btc_accumulated = R(0)
        /\ result.total_btc_investment = R(0)
        /\ IsNaN(result.roi_percentage)
        /\ result.roi_warning = ""

(***************************************************************************)
(* Properties of calculate_effective_rates                                 *)
(***************************************************************************)
Resolved == prog = "rates" /\ pc = "done"

\* C10: the regime is "cost" exactly when total_interest - net position > 0
\* and "return" otherwise, also at 0; in the return regime the gain is the
\* negated net interest and the capital is principal + interest + net position
C10_RegimeBySignOfNetInterest ==
    Resolved =>
        LET net == RSub(rate_args.total_interest, rate_args.net_bitcoin_position)
        IN  /\ rates.rate_type = (IF RGt(net, R(0)) THEN "cost" ELSE "return")
            /\ rates.rate_type = "return" =>
                   /\ rates.total_gain = RNeg(net)
                   /\ rates.total_capital_deployed =
                          RAdd(rate_args.principal,
                               RAdd(rate_args.total_interest,
                                    rate_args.net_bitcoin_position))

\* a call whose net interest is exactly 0, resolved as a return
C10_Witness ==
    /\ Resolved
    /\ rate_args.total_interest = rate_args.net_bitcoin_position
    /\ RGt(rate_args.total_interest, R(0))
    /\ rates.rate_type = "return"

(***************************************************************************)
(* Properties of the argument checks                                       *)
(***************************************************************************)
RatesEnded == prog = "rates" /\ pc \in {"done", "failed"}

\* C11: a call of the resolver with term_months <= 0, or with a capital
\* deployed <= 0 in the branch where the position covers the interest, fails
\* and returns no rate
C11_InvalidRateArgumentsRejected ==
    RatesEnded =>
        LET net_interest == NetInterest(rate_args.total_interest,
                                        rate_args.net_bitcoin_position)
            capital == CapitalDeployed(rate_args.principal,
                           rate_args.total_interest,
                           rate_args.net_bitcoin_position)
        IN  (\/ rate_args.term_months <= 0
             \/ ~RegimeIsCost(net_interest) /\ RLe(capital, R(0)))
                => pc = "failed" /\ rates = <<>>

PayEnded == prog = "payment" /\ pc \in {"done", "failed"}

\* C12: a payment computation with term_months <= 0 or principal <= 0 fails
\* and returns no payment
C12_InvalidLoanRejected ==
    PayEnded =>
        ((loan.loan_term_months <= 0 \/ RLe(loan.principal_amount, R(0)))
            => pc = "failed" /\ result = <<>> /\ IsNaN(monthly_payment))

\* C13: no purchase divides by a price <= 0: a run whose purchase date
\* resolves to such a price fails, so every purchase made has a price > 0 and
\* the accumulated quantity is finite and not negative
C13_NoPurchaseAtNonPositivePrice ==
    prog \in {"btc", "auto"} =>
        /\ \A n \in 1..Len(purchases) : RGt(purchases[n].price, R(0))
        /\ IsFinite(btc_accumulated)
        /\ RGe(btc_accumulated, R(0))

(***************************************************************************)
(* Properties of the scenario loops                                        *)
(***************************************************************************)
GridEnded == InMain /\ pc \in {"done", "failed"}

\* C14: when a scenario of the grid fails, the run still ends with the results
\* written: every other scenario has its row in the written results and the
\* failing scenario is the one reported by the error
C14_FailedScenarioLeavesOtherResults ==
    GridEnded =>
        /\ saved # <<>>
        /\ \A k \in 1..Len(scenarios) :
               \/ k <= Len(all_results) /\ Len(saved[1]) >= k
                    /\ saved[1][k] = all_results[k]
               \/ err # "" /\ k = scenario_no

(***************************************************************************)
(* Properties of the simulation results                                    *)
(***************************************************************************)
\* every sample of the series handed to the simulator has the same price
FlatSeries ==
    /\ df # <<>>
    /\ \A n \in 1..Len(df) : df[n].avg_price = df[1].avg_price

\* C15: a finished simulation reports final value = quantity * final price and
\* net position = final value - invested; over a series of constant price and
\* with an allocation > 0 the final value equals the amount invested, the net
\* position and the ROI are 0, and the quantity is invested / price (48 for 48
\* purchases of 100 at price 100)
C15_FlatPriceBreaksEven ==
    (Simulating /\ pc = "done") =>
        /\ result.final_btc_value
               = RMul(result.btc_accumulated, df[Len(df)].avg_price)
        /\ result.net_position
               = RSub(result.final_btc_value, result.total_btc_investment)
        /\ (FlatSeries /\ RGt(btc_monthly_amount, R(0))) =>
               /\ result.final_btc_value = result.total_btc_investment
               /\ result.net_position = R(0)
               /\ result.roi_percentage = R(0)
               /\ RMul(result.btc_accumulated, df[1].avg_price)
                      = RMul(btc_monthly_amount, R(loan.loan_term_months))

\* a finished simulation of two purchases of a positive amount, made at
\* different samples of a series of constant price
C15_Witness ==
    /\ Simulating /\ pc = "done"
    /\ FlatSeries
    /\ RGt(btc_monthly_amount, R(0))
    /\ Len(purchases) = 2
    /\ purchases[1].row # purchases[2].row

(***************************************************************************)
(* Properties of the scan over a series of exactly the horizon             *)
(***************************************************************************)
\* the last sample lies exactly 4 years after the first
SpansHorizon ==
    /\ df # <<>>
    /\ df[Len(df)].date = AddYears(df[1].date, HorizonYears)

\* C16: over a series whose last sample lies exactly 4 years after its first,
\* the scan records exactly one interval, from the first sample to the last,
\* and leaves the loop at the second start
C16_ExactSpanGivesOneInterval ==
    (ScanLoopOver /\ SpansHorizon) =>
        /\ Len(all_returns) = 1
        /\ all_start_dates = <<df[1].date>>
        /\ all_end_dates = <<df[Len(df)].date>>
        /\ end_idxs = <<Len(df)>>
        /\ all_returns = <<ReturnPct(df[1].avg_price, df[Len(df)].avg_price)>>
        /\ i = 2
        /\ pc # "failed"

\* a finished scan over such a series with samples between its first and last
C16_Witness ==
    /\ ScanLoopOver /\ SpansHorizon
    /\ pc = "done"
    /\ Len(df) = 4

\* C17: the highest return reported is >= every recorded return, the lowest
\* is <= every recorded return, and total_intervals_analyzed is the number of
\* recorded intervals
C17_ExtremesBoundEveryReturn ==
    (prog = "scan" /\ pc = "done") =>
        /\ \A n \in 1..Len(all_returns) :
               /\ RGe(results.highest_return.return_pct, all_returns[n])
               /\ RLe(results.lowest_return.return_pct, all_returns[n])
        /\ \E n \in 1..Len(all_returns) :
               results.highest_return.return_pct = all_returns[n]
        /\ \E n \in 1..Len(all_returns) :
               results.lowest_return.return_pct = all_returns[n]
        /\ results.total_intervals_analyzed = Len(all_returns)
        /\ results.total_intervals_analyzed = Cardinality(Fitting)

\* a finished scan whose greatest return is neither the first nor the last
\* recorded and differs from the least
C17_Witness ==
    /\ prog = "scan" /\ pc = "done"
    /\ Len(all_returns) = 3
    /\ RGt(all_returns[2], all_returns[1])
    /\ RGt(all_returns[2], all_returns[3])

(***************************************************************************)
(* Properties of the amounts                                               *)
(***************************************************************************)
\* C18: for every principal > 0, apr >= 0 and term_months > 0 the payment is
\* computed and the total interest monthly_payment * term_months - principal
\* is not negative
C18_TotalInterestNotNegative ==
    (/\ PayEnded
     /\ RGt(loan.principal_amount, R(0))
     /\ RGe(loan.traditional_apr, R(0))
     /\ loan.loan_term_months > 0) =>
        /\ pc = "done"
        /\ RGe(TotalInterest(monthly_payment, loan.loan_term_months,
                             loan.principal_amount), R(0))

(***************************************************************************)
(* Properties of the rates at the boundary of the two branches             *)
(***************************************************************************)
\* a loan: principal > 0, total interest >= 0, term_months > 0
LoanArgs ==
    /\ RGt(rate_args.principal, R(0))
    /\ RGe(rate_args.total_interest, R(0))
    /\ rate_args.term_months > 0

\* C19: both branches return 100 * (growth ** (12 / term_months) - 1), which
\* is 0 exactly when growth is 1.  On either side of net_interest = 0 the
\* growth differs from 1 by at most |net_interest| / principal, so the rates
\* of both branches tend to 0 as net_interest tends to 0; at net_interest = 0
\* the growth returned is 1, the value the cost branch has there, and the
\* total return is 0
C19_RatesMeetAtZeroNetInterest ==
    (Resolved /\ LoanArgs) =>
        /\ RLe(RAbs(RSub(rates.growth, R(1))),
               NpDiv(RAbs(rates.net_interest), rate_args.principal))
        /\ rates.net_interest = R(0) =>
               /\ rates.rate_type = "return"
               /\ rates.growth = R(1)
               /\ rates.growth = CostGrowth(rates.net_interest, rate_args.principal)
               /\ rates.total_return = R(0)

\* a call whose position equals a positive interest, net_interest = 0
C19_Witness ==
    /\ Resolved /\ LoanArgs
    /\ rates.net_interest = R(0)
    /\ RGt(rate_args.total_interest, R(0))

(***************************************************************************)
(* Properties of a sequence of simulations over one price series           *)
(***************************************************************************)
\* C20: the result of every scenario of a sequence is the result of one call
\* of the simulator on the loaded series and that scenario alone, whatever
\* scenarios ran before it; the series stays the one loaded from the file, and
\* equal scenarios get equal results at every position of the sequence
C20_ResultDependsOnInputsOnly ==
    InMain =>
        /\ pc # "raw" =>
               df = (IF BtcPath THEN LoadBtcFrame(raw) ELSE LoadAutoFrame(raw))
        /\ \A k \in 1..Len(all_results) :
               all_results[k] = RunAlone(AutoPath, df, scenarios[k])
        /\ \A j, k \in 1..Len(all_results) :
               scenarios[j] = scenarios[k] => all_results[j] = all_results[k]
        /\ pc = "failed" =>
               RunAlone(AutoPath, df, scenarios[scenario_no]) = [error |-> err]

\* a run that simulated two scenarios with different results and wrote them
C20_Witness ==
    /\ InMain /\ pc = "done"
    /\ Len(all_results) = 2
    /\ all_results[1] # all_results[2]
    /\ saved = <<all_results>>
    /\ RGt(all_results[1].btc_accumulated, R(0))

(***************************************************************************)
(* Properties of the payment dates of analyze_auto_loan                    *)
(***************************************************************************)
AutoScheduled == prog = "auto" /\ pc \in {"buying", "done"}

\* C21: every payment date of analyze_auto_loan lies inside the simulated
\* window: at or after start_date (the last timestamp minus term_months
\* months) and at or before the last timestamp
C21_PaymentDatesInsideWindow ==
    AutoScheduled =>
        \A j \in 1..Len(payment_dates) :
            /\ Ord(start_date) <= Ord(payment_dates[j])
            /\ Ord(payment_dates[j]) <= Ord(EndDate(df))

\* the calendar month of a date, counted from year 0
MonthIndex(date) == date[1] * 12 + date[2]

\* C22: for a payment day in 1..28 the payment dates of analyze_auto_loan are
\* term_months dates, strictly increasing, one in each of term_months
\* consecutive calendar months beginning with the month of the first month end
\* at or after start_date, each on day min(payment_day, days of its month)
C22_PaymentDatesOnePerMonth ==
    (AutoScheduled /\ loan.payment_day \in 1..28) =>
        /\ Len(payment_dates) = loan.loan_term_months
        /\ MonthIndex(payment_dates[1]) = MonthIndex(MonthEnd(start_date, 0))
        /\ \A j \in 1..Len(payment_dates) :
               /\ payment_dates[j][3]
                      = MinOf(loan.payment_day,
                              DaysInMonth(payment_dates[j][1], payment_dates[j][2]))
               /\ payment_dates[j][4] = start_date[4]
        /\ \A j \in 1..(Len(payment_dates) - 1) :
               /\ MonthIndex(payment_dates[j + 1]) = MonthIndex(payment_dates[j]) + 1
               /\ Ord(payment_dates[j]) < Ord(payment_dates[j + 1])

\* two payment dates on day 28 of January and of February
C22_Witness ==
    /\ AutoScheduled
    /\ loan.payment_day = 28
    /\ Len(payment_dates) = 2
    /\ payment_dates[1][2] = 1
    /\ payment_dates[2][2] = 2

(***************************************************************************)
(* Properties of the capital deployed                                      *)
(***************************************************************************)
\* C23: in the return branch, with principal > 0 and total_interest >= 0, the
\* position is at least the interest, so the capital deployed is at least the
\* principal, hence > 0, and total_gain / total_capital_deployed is a finite
\* number >= 0
C23_CapitalDeployedPositive ==
    (/\ Resolved
     /\ rates.rate_type = "return"
     /\ RGt(rate_args.principal, R(0))
     /\ RGe(rate_args.total_interest, R(0))) =>
        /\ RGe(rate_args.net_bitcoin_position, rate_args.total_interest)
        /\ RGt(rates.total_capital_deployed, R(0))
        /\ RGe(rates.total_capital_deployed, rate_args.principal)
        /\ rates.total_capital_deployed
               = RAdd(RAdd(rate_args.principal, rate_args.total_interest),
                      rate_args.net_bitcoin_position)
        /\ IsFinite(rates.total_return) /\ RGe(rates.total_return, R(0))
        /\ IsFinite(rates.growth) /\ RGe(rates.growth, R(1))

\* a return-branch call whose position exceeds a positive interest
C23_Witness ==
    /\ Resolved
    /\ rates.rate_type = "return"
    /\ RGt(rate_args.total_interest, R(0))
    /\ RGt(rate_args.net_bitcoin_position, rate_args.total_interest)

(***************************************************************************)
(* Properties of the reported extremes                                     *)
(***************************************************************************)
\* the prices reported for an interval are those of the samples at its dates
\* and give its return
PricesMatchDates(e) ==
    /\ \E n \in 1..Len(df) : df[n].date = e.start_date
    /\ \E n \in 1..Len(df) : df[n].date = e.end_date
    /\ \A n \in 1..Len(df) :
           /\ df[n].date = e.start_date => df[n].avg_price = e.start_price
           /\ df[n].date = e.end_date => df[n].avg_price = e.end_price
    /\ e.return_pct = ReturnPct(e.start_price, e.end_price)

\* C24: for the best and the worst interval the reported start_price and
\* end_price are the prices of the samples at the reported start_date and
\* end_date and give the reported return_pct; the k-th recorded interval
\* starts at the k-th sample, and searching its end date again finds the
\* index the scan used
C24_ReportedPricesBelongToDates ==
    (prog = "scan" /\ pc = "done") =>
        /\ PricesMatchDates(results.highest_return)
        /\ PricesMatchDates(results.lowest_return)
        /\ \A k \in 1..Len(all_returns) :
               /\ all_start_dates[k] = df[k].date
               /\ SearchSorted(df, all_end_dates[k]) = end_idxs[k]

\* a finished scan whose best interval is not the first recorded, ends before
\* the last sample and ends at a price other than the last one
C24_Witness ==
    /\ prog = "scan" /\ pc = "done"
    /\ ArgMax(all_returns) > 1
    /\ end_idxs[ArgMax(all_returns)] < Len(df)
    /\ results.highest_return.end_price # df[Len(df)].avg_price
    /\ results.highest_return.return_pct # results.lowest_return.return_pct

====
